---- MODULE Spec2Model ----
(***************************************************************************)
(* State-machine model of src/src/components/Marquee.tsx.  The file holds  *)
(* two variants of the Marquee component: variant 1 (lines 1-355, with the *)
(* dark-mode gradient) and variant 2 (lines 357-919, with the drag         *)
(* controller).                                                            *)
(*                                                                         *)
(* The host (React and the browser) is modelled by its scheduling          *)
(* contract: an event handler updates the hook state, a later Render       *)
(* commits a snapshot of props and state, and the passive effects of that  *)
(* commit run in a later step (RunEffects), always before the next render. *)
(* Browser callbacks (animation frames, timers, resize notifications) may  *)
(* run between any two of these steps.  User input and prop changes are    *)
(* delivered when no render and no effect is pending.                      *)
(*                                                                         *)
(* Four specifications share the state and the render/effect steps and     *)
(* differ in what the environment does: SpecSizing (layout changes and     *)
(* autoFill), SpecPlayback (play state, onMount and the animation events), *)
(* SpecDrag (pointer input, frames, timers and the draggable prop of       *)
(* variant 2 in a browser) and SpecTranslation (drag start over transform  *)
(* strings of any form).                                                   *)
(***************************************************************************)
EXTENDS Integers, Sequences, FiniteSets, TLC

\* ---------------------------------------------------------------- bounds
MaxExtent == 3
MaxCoord == 1
MaxGestures == 2
MaxIterations == 3
MaxLoop == 2
MaxMountCalls == 3

\* ------------------------------------------------------ program constants
\* speed = 50 (default prop value)
DefaultSpeed == 50

Extents == 0..MaxExtent
Coords == 0..MaxCoord
Directions == {"left", "right", "up", "down"}
Speeds == {DefaultSpeed, 2 * DefaultSpeed}
Loops == 0..MaxLoop
\* onMount is undefined ("none") or one of two function identities
OnMountFns == {"f", "g"}
\* Positions the running keyframe animation can be read at on drag start
AnimPositions == {0, -1}

\* A JavaScript number is <<n>>, or <<>> for NaN
NaN == <<>>

\* The numbers whose decimal form the strings of the model can spell
Numbers == (-(MaxGestures * MaxCoord) - 1)..(MaxGestures * MaxCoord)

\* parseFloat(s), for strings that are a decimal number or start with none
parseFloat(s) ==
    IF \E n \in Numbers : ToString(n) = s
    THEN <<CHOOSE n \in Numbers : ToString(n) = s>>
    ELSE NaN

\* Bounding rectangles (getBoundingClientRect) the two measured elements
\* can take; width and height differ so that the axis swap is visible.
ContainerRects == {[width |-> w, height |-> MaxExtent - w] : w \in Extents}
MarqueeRects == {[width |-> w, height |-> (w + 1) % (MaxExtent + 1)] : w \in Extents}
Geoms == [container : ContainerRects, marquee : MarqueeRects]

VARIABLES
    variant,              \* 1 or 2: which of the two components is mounted
    props,                \* the props the parent currently passes
    st,                   \* hook state (useState), latest values
    committed,            \* <<>> or <<snapshot>>: props and state of the last commit
    flushed,              \* <<>> or <<snapshot>>: the commit whose effects have run
    phase,                \* "mounted" or "unmounted"
    geom,                 \* layout: bounding rectangles of container and content
    tracks,               \* inline style overrides of the two .rfm-marquee tracks
    animationFrameRef,    \* useRef: id of the requested frame, 0 for null
    currentDragOffsetRef, \* useRef: running drag offset
    raf,                  \* pending requestAnimationFrame callbacks
    observer,             \* <<>> or <<closure>>: connected ResizeObserver
    listeners,            \* <<>> or <<closure>>: document drag listeners
    timers,               \* pending setTimeout callbacks, in firing order
    onMountCalls,         \* invocations of the onMount prop
    cycleCalls,           \* invocations of onCycleComplete
    finishCalls,          \* invocations of onFinish
    iterations,           \* iteration-end events of the keyframe animation so far
    lastCalc,             \* history: the last calculateWidth run that measured
    gesture               \* history: the inputs of the current drag gesture

vars == <<variant, props, st, committed, flushed, phase, geom, tracks,
          animationFrameRef, currentDragOffsetRef, raf, observer, listeners,
          timers, onMountCalls, cycleCalls, finishCalls, iterations, lastCalc,
          gesture>>

dragVars == <<tracks, animationFrameRef, currentDragOffsetRef, raf, listeners,
              timers, gesture>>
callbackVars == <<cycleCalls, finishCalls, iterations>>

\* ------------------------------------------------------------ pure parts

\* The snapshot a render closes over
Snap == [props |-> props, st |-> st]

\* Both measured elements are attached (marqueeRef.current && containerRef.current)
RefsAttached ==
    /\ phase = "mounted"
    /\ committed # <<>>
    /\ committed[1].st.isMounted

\* Swap width and height if direction is up or down
MeasuredExtent(rect, direction) ==
    IF direction = "up" \/ direction = "down" THEN rect.height ELSE rect.width

CeilDivDown(a, b) == a \div b

\* Math.ceil(containerWidth / marqueeWidth)
CeilDiv(a, b) == IF a % b = 0 THEN a \div b ELSE (a \div b) + 1

\* The value calculateWidth passes to setMultiplier
Multiplier(autoFill, containerWidth, marqueeWidth) ==
    IF autoFill /\ containerWidth # 0 /\ marqueeWidth # 0
    THEN IF marqueeWidth < containerWidth
         THEN CeilDiv(containerWidth, marqueeWidth)
         ELSE 1
    ELSE 1

\* calculateWidth as closed over (autoFill, direction), applied to hook state s
calculateWidth(s, autoFill, direction) ==
    IF RefsAttached
    THEN LET containerWidth == MeasuredExtent(geom.container, direction)
             marqueeWidth == MeasuredExtent(geom.marquee, direction)
         IN  [s EXCEPT !.multiplier = Multiplier(autoFill, containerWidth, marqueeWidth),
                       !.containerWidth = containerWidth,
                       !.marqueeWidth = marqueeWidth]
    ELSE s

CalcRecord(autoFill) ==
    IF RefsAttached THEN [ran |-> TRUE, autoFill |-> autoFill] ELSE lastCalc

DurationWithoutMultiplier(autoFill, containerWidth, marqueeWidth, multiplier, speed) ==
    [num |-> IF marqueeWidth < containerWidth THEN containerWidth ELSE marqueeWidth,
     den |-> speed]

\* Animation duration in seconds, as the fraction num / den
Duration(autoFill, containerWidth, marqueeWidth, multiplier, speed) ==
    IF autoFill
    THEN [num |-> marqueeWidth * multiplier, den |-> speed]
    ELSE [num |-> IF marqueeWidth < containerWidth THEN containerWidth ELSE marqueeWidth,
          den |-> speed]

\* marqueeStyle["--play"]
PlayParam(play) == IF play THEN "running" ELSE "paused"

\* containerStyle["--pause-on-hover"]
PauseOnHoverParam(play, pauseOnHover) ==
    IF ~play \/ pauseOnHover THEN "paused" ELSE "running"

PauseOnClickParamIgnoringPlay(v, play, pauseOnHover, pauseOnClick, draggable) ==
    IF (pauseOnHover /\ ~pauseOnClick) \/ pauseOnClick \/ (v = 2 /\ draggable)
    THEN "paused" ELSE "running"

\* containerStyle["--pause-on-click"]; variant 2 adds "|| draggable"
PauseOnClickParam(v, play, pauseOnHover, pauseOnClick, draggable) ==
    IF ~play \/ (pauseOnHover /\ ~pauseOnClick) \/ pauseOnClick \/ (v = 2 /\ draggable)
    THEN "paused" ELSE "running"

IterationCountAlwaysInfinite(loop) == "infinite"

\* marqueeStyle["--iteration-count"]
IterationCount(loop) == IF loop # 0 THEN ToString(loop) ELSE "infinite"

\* The style parameters a commit emits (the component renders null until isMounted)
Emitted(snap) ==
    [play |-> PlayParam(snap.props.play),
     pauseOnHover |-> PauseOnHoverParam(snap.props.play, snap.props.pauseOnHover),
     pauseOnClick |-> PauseOnClickParam(variant, snap.props.play, snap.props.pauseOnHover,
                                        snap.props.pauseOnClick, snap.props.draggable),
     duration |-> Duration(snap.props.autoFill, snap.st.containerWidth,
                           snap.st.marqueeWidth, snap.st.multiplier, snap.props.speed),
     iterationCount |-> IterationCount(snap.props.loop)]

Rendered == committed # <<>> /\ committed[1].st.isMounted

\* No render and no effect is pending
Quiescent ==
    /\ phase = "mounted"
    /\ committed = <<Snap>>
    /\ flushed = committed

\* cancelAnimationFrame(id)
CancelFrame(q, id) == {f \in q : f.id # id}

\* requestAnimationFrame returns an id that no pending request has and that is
\* not the one the ref still holds
FreshFrameId(q, ref) == CHOOSE i \in 1..4 : i # ref /\ \A f \in q : f.id # i

\* ----------------------------------------------------------------- Init

DefaultProps ==
    [autoFill |-> FALSE, play |-> TRUE, pauseOnHover |-> FALSE, pauseOnClick |-> FALSE,
     draggable |-> FALSE, direction |-> "left", speed |-> DefaultSpeed, loop |-> 0,
     onMount |-> "none"]

InitState ==
    [containerWidth |-> 0, marqueeWidth |-> 0, multiplier |-> 1, isMounted |-> FALSE,
     isDragging |-> FALSE, dragStartPos |-> 0, animationPosition |-> <<0>>]

NoPointer == [clientX |-> 0, clientY |-> 0]

\* No gesture yet: n counts the gestures started, released is the last one ended
NoGesture == [n |-> 0, start |-> NoPointer, captured |-> <<0>>, last |-> NoPointer,
              released |-> 0]

\* A track without inline overrides; transform is <<>> or <<x>> for translateX(x px)
CleanTrack == [transform |-> <<>>, transition |-> "none"]

\* The state after construction, before the first render
InitCommon ==
    /\ st = InitState
    /\ committed = <<>>
    /\ flushed = <<>>
    /\ phase = "mounted"
    /\ tracks = [i \in 1..2 |-> CleanTrack]
    /\ animationFrameRef = 0
    /\ currentDragOffsetRef = 0
    /\ raf = {}
    /\ observer = <<>>
    /\ listeners = <<>>
    /\ timers = <<>>
    /\ onMountCalls = 0
    /\ cycleCalls = 0
    /\ finishCalls = 0
    /\ iterations = 0
    /\ lastCalc = [ran |-> FALSE, autoFill |-> FALSE]
    /\ gesture = NoGesture

\* ------------------------------------------------------- render and effects

\* The function component runs and React commits its output
Render ==
    /\ phase = "mounted"
    /\ flushed = committed
    /\ committed # <<Snap>>
    /\ committed' = <<Snap>>
    /\ UNCHANGED <<variant, props, st, flushed, phase, geom, observer, onMountCalls,
                   lastCalc, dragVars, callbackVars>>

ListenersKeptAfterDrag(new) ==
    IF new.props.draggable /\ new.st.isDragging
    THEN <<[isDragging |-> new.st.isDragging,
            dragStartPos |-> new.st.dragStartPos,
            direction |-> new.props.direction]>>
    ELSE listeners

\* What the document listener effect leaves registered once its cleanup and its
\* body have run for the commit `new`: the closures handleDragMove and
\* handleDragEnd of that commit, or nothing
ListenerEffect(new) ==
    IF new.props.draggable /\ new.st.isDragging
    THEN <<[isDragging |-> new.st.isDragging,
            dragStartPos |-> new.st.dragStartPos,
            direction |-> new.props.direction]>>
    ELSE <<>>

\* The passive effects of the last commit, in declaration order: cleanups of the
\* effects whose dependencies changed, then their bodies.
RunEffects ==
    /\ phase = "mounted"
    /\ committed # <<>>
    /\ flushed # committed
    /\ LET new == committed[1]
           first == flushed = <<>>
           old == IF first THEN new ELSE flushed[1]
           calcChanged == \/ first
                          \/ old.props.autoFill # new.props.autoFill
                          \/ old.props.direction # new.props.direction
           \* useEffect(..., [calculateWidth, containerRef, isMounted])
           resizeDeps == calcChanged \/ old.st.isMounted # new.st.isMounted
           \* useEffect(..., [calculateWidth, children])
           childrenDeps == calcChanged
           s1 == IF resizeDeps /\ new.st.isMounted
                 THEN calculateWidth(st, new.props.autoFill, new.props.direction)
                 ELSE st
           s2 == IF childrenDeps
                 THEN calculateWidth(s1, new.props.autoFill, new.props.direction)
                 ELSE s1
           \* useEffect(() => setIsMounted(true), [])
           s3 == IF first THEN [s2 EXCEPT !.isMounted = TRUE] ELSE s2
           \* variant 1: useEffect(..., [onMount]); variant 2: useEffect(..., [])
           mountDeps == first \/ (variant = 1 /\ old.props.onMount # new.props.onMount)
           \* useEffect(..., [isDragging, animationPosition])
           dragDeps == /\ variant = 2
                       /\ \/ first
                          \/ old.st.isDragging # new.st.isDragging
                          \/ old.st.animationPosition # new.st.animationPosition
           hadDragCleanup == dragDeps /\ ~first /\ old.st.isDragging
           ref1 == IF hadDragCleanup THEN 0 ELSE animationFrameRef
           raf1 == IF hadDragCleanup /\ animationFrameRef # 0
                   THEN CancelFrame(raf, animationFrameRef) ELSE raf
           newId == FreshFrameId(raf1, ref1)
           \* useEffect(..., [draggable, isDragging, handleDragMove, handleDragEnd])
           listenDeps == /\ variant = 2
                         /\ \/ first
                            \/ old.props.draggable # new.props.draggable
                            \/ old.st.isDragging # new.st.isDragging
                            \/ old.st.dragStartPos # new.st.dragStartPos
                            \/ old.props.direction # new.props.direction
       IN  /\ st' = s3
           /\ lastCalc' = IF (resizeDeps /\ new.st.isMounted) \/ childrenDeps
                          THEN CalcRecord(new.props.autoFill) ELSE lastCalc
           /\ observer' = IF resizeDeps
                          THEN IF new.st.isMounted
                               THEN <<[autoFill |-> new.props.autoFill,
                                       direction |-> new.props.direction]>>
                               ELSE <<>>
                          ELSE observer
           /\ onMountCalls' = IF mountDeps /\ new.props.onMount # "none"
                              THEN onMountCalls + 1 ELSE onMountCalls
           /\ IF dragDeps
              THEN IF new.st.isDragging
                   THEN /\ raf' = raf1 \cup {[id |-> newId,
                                              initialPosition |-> new.st.animationPosition]}
                        /\ animationFrameRef' = newId
                   ELSE /\ raf' = IF ref1 # 0 THEN CancelFrame(raf1, ref1) ELSE raf1
                        /\ animationFrameRef' = 0
              ELSE UNCHANGED <<raf, animationFrameRef>>
           /\ listeners' = IF listenDeps THEN ListenerEffect(new) ELSE listeners
    /\ flushed' = committed
    /\ UNCHANGED <<variant, props, committed, phase, geom, tracks, currentDragOffsetRef,
                   timers, gesture, callbackVars>>

\* The parent removes the component: every effect's cleanup runs
Unmount ==
    /\ phase = "mounted"
    /\ committed # <<>>
    /\ flushed = committed
    /\ phase' = "unmounted"
    /\ observer' = <<>>
    /\ listeners' = <<>>
    /\ IF variant = 2 /\ flushed[1].st.isDragging /\ animationFrameRef # 0
       THEN /\ raf' = CancelFrame(raf, animationFrameRef)
            /\ animationFrameRef' = 0
       ELSE UNCHANGED <<raf, animationFrameRef>>
    /\ UNCHANGED <<variant, props, st, committed, flushed, geom, tracks,
                   currentDragOffsetRef, timers, onMountCalls, lastCalc, gesture,
                   callbackVars>>

\* ------------------------------------------------------------ prop changes

\* The parent renders the component with new props np: the component function
\* runs in the same pass and the result is committed (pending effects of the
\* previous commit are always flushed first).
ParentRender(np) ==
    /\ phase = "mounted"
    /\ committed # <<>>
    /\ flushed = committed
    /\ props' = np
    /\ committed' = <<[props |-> np, st |-> st]>>
    /\ UNCHANGED <<variant, st, flushed, phase, geom, observer, onMountCalls,
                   lastCalc, dragVars, callbackVars>>

\* The parent toggles autoFill
SetAutoFill == ParentRender([props EXCEPT !.autoFill = ~@])

\* The parent toggles play
SetPlay == ParentRender([props EXCEPT !.play = ~@])

\* The parent toggles draggable
SetDraggable == ParentRender([props EXCEPT !.draggable = ~@])

\* The parent passes a new onMount function identity
SetOnMount ==
    /\ onMountCalls < MaxMountCalls
    /\ \E f \in OnMountFns \ {props.onMount} :
          ParentRender([props EXCEPT !.onMount = f])

\* ------------------------------------------------------------------ sizing

\* Layout changes the size of the container or of the content
Resize ==
    /\ Quiescent
    /\ RefsAttached
    /\ \E g \in Geoms \ {geom} : geom' = g
    /\ UNCHANGED <<variant, props, st, committed, flushed, phase, observer, onMountCalls,
                   lastCalc, dragVars, callbackVars>>

\* new ResizeObserver(() => calculateWidth()) notifies
ResizeNotify ==
    /\ phase = "mounted"
    /\ observer # <<>>
    /\ st' = calculateWidth(st, observer[1].autoFill, observer[1].direction)
    /\ lastCalc' = CalcRecord(observer[1].autoFill)
    /\ UNCHANGED <<variant, props, committed, flushed, phase, geom, observer,
                   onMountCalls, dragVars, callbackVars>>

\* ---------------------------------------------------------- specifications

InitSizing ==
    /\ InitCommon
    /\ geom \in Geoms
    /\ variant \in {1, 2}
    /\ \E af \in BOOLEAN, d \in Directions, s \in Speeds :
          props = [DefaultProps EXCEPT !.autoFill = af, !.direction = d, !.speed = s]

NextSizing ==
    \/ Render
    \/ RunEffects
    \/ SetAutoFill
    \/ Resize
    \/ ResizeNotify
    \/ Unmount

\* Sizing observer, auto-fill multiplier and duration, both variants
SpecSizing == InitSizing /\ [][NextSizing]_vars

\* ---------------------------------------------------------------- playback

\* The stylesheet runs the keyframe animation of a track for --iteration-count
\* iterations while --play is "running": after `done` iteration ends, is another due?
AnimationActive(play, iterationCount, done) ==
    /\ play = "running"
    /\ \/ iterationCount = "infinite"
       \/ \E n \in 1..MaxLoop : ToString(n) = iterationCount /\ done < n

\* The event the browser dispatches at the end of iteration done + 1: the last
\* configured iteration ends the animation, every other one starts the next.
AnimationEvent(iterationCount, done) ==
    IF iterationCount # "infinite" /\ ToString(done + 1) = iterationCount
    THEN "animationend"
    ELSE "animationiteration"

\* An iteration of the first track's animation ends;
\* onAnimationIteration={onCycleComplete} onAnimationEnd={onFinish}
AnimationIterationEnd ==
    /\ phase = "mounted"
    /\ Rendered
    /\ iterations < MaxIterations
    /\ LET e == Emitted(committed[1])
       IN  /\ AnimationActive(e.play, e.iterationCount, iterations)
           /\ IF AnimationEvent(e.iterationCount, iterations) = "animationend"
              THEN /\ finishCalls' = finishCalls + 1
                   /\ UNCHANGED cycleCalls
              ELSE /\ cycleCalls' = cycleCalls + 1
                   /\ UNCHANGED finishCalls
    /\ iterations' = iterations + 1
    /\ UNCHANGED <<variant, props, st, committed, flushed, phase, geom, observer,
                   onMountCalls, lastCalc, dragVars>>

DefaultGeom ==
    [container |-> [width |-> MaxExtent, height |-> 0],
     marquee |-> [width |-> 1, height |-> 2]]

InitPlayback ==
    /\ InitCommon
    /\ geom = DefaultGeom
    /\ variant \in {1, 2}
    /\ \E pl \in BOOLEAN, h \in BOOLEAN, c \in BOOLEAN, dr \in BOOLEAN,
          l \in Loops, m \in OnMountFns :
          props = [DefaultProps EXCEPT !.play = pl, !.pauseOnHover = h,
                                       !.pauseOnClick = c, !.draggable = dr,
                                       !.loop = l, !.onMount = m]

NextPlayback ==
    \/ Render
    \/ RunEffects
    \/ SetPlay
    \/ SetOnMount
    \/ AnimationIterationEnd
    \/ Unmount

\* Play-state parameters and the three callbacks, both variants
SpecPlayback == InitPlayback /\ [][NextPlayback]_vars

\* ------------------------------------------------------------------- drag

PointerEvents == [clientX : Coords, clientY : Coords]

\* A transform value as a string: the function name and the pieces that
\* split(", ") makes of the text between its parentheses.
NoneString == [fn |-> "none", args |-> <<>>]

\* "matrix(1, 0, 0, 1, tx, 0)"
MatrixString(tx) == [fn |-> "matrix", args |-> <<"1", "0", "0", "1", ToString(tx), "0">>]

\* The computed transform of the first track, as getComputedStyle serialises it:
\* "none", or "matrix(1, 0, 0, 1, tx, 0)".  An !important inline translateX wins
\* over the keyframe animation; without one the animation's position shows.
ComputedTransforms ==
    IF tracks[1].transform # <<>>
    THEN {MatrixString(tracks[1].transform[1])}
    ELSE {NoneString} \cup {MatrixString(a) : a \in AnimPositions}

\* The fifth and sixth piece of a matrix string: a number or text that is none
Components == {ToString(n) : n \in -MaxCoord..MaxCoord} \cup {"x"}

\* Transform strings of any form: "none", "", a 3D matrix, another function,
\* matrices with any fifth and sixth piece, with four pieces only, and "matrix()"
TransformStrings ==
    {NoneString,
     [fn |-> "", args |-> <<>>],
     [fn |-> "matrix3d", args |-> <<"1", "0", "0", "0", "0", "1", "0", "0",
                                    "0", "0", "1", "0", "1", "0", "0", "1">>],
     [fn |-> "translateX", args |-> <<"1px">>],
     [fn |-> "matrix", args |-> <<"1", "0", "0", "1">>],
     [fn |-> "matrix", args |-> <<"">>]}
    \cup {[fn |-> "matrix", args |-> <<"1", "0", "0", "1", e, f>>] :
             e \in Components, f \in Components}

\* transform.match(/matrix\((.+)\)/): "matrix(" followed by at least one character
MatrixMatch(t) == t.fn = "matrix" /\ t.args # <<"">>

\* matrix[1].split(", ")
MatrixValues(t) == t.args

\* values[i] of a JavaScript array (zero-based i), converted to a string
ValueAt(values, i) == IF i + 1 <= Len(values) THEN values[i + 1] ELSE "undefined"

\* getCurrentTranslation, given whether firstMarqueeRef.current is set and the
\* computed transform
getCurrentTranslation(attached, t) ==
    IF ~attached THEN <<0>>
    ELSE IF t = NoneString \/ t = MatrixString(0) THEN <<0>>
    ELSE IF MatrixMatch(t) THEN parseFloat(ValueAt(MatrixValues(t), 4))
    ELSE <<0>>

\* The client position along the scroll axis
ClientPos(direction, e) ==
    IF direction \in {"left", "right"} THEN e.clientX ELSE e.clientY

\* The offset handleDragMove stores in currentDragOffsetRef
DragOffset(direction, clientPos, dragStartPos) ==
    IF direction = "up" THEN -(clientPos - dragStartPos) ELSE clientPos - dragStartPos

\* onMouseDown / onTouchStart on the container (wired only when draggable),
\* when the computed transform of the first track reads t
handleDragStartReading(t) ==
    /\ Quiescent
    /\ variant = 2
    /\ Rendered
    /\ committed[1].props.draggable
    /\ gesture.n < MaxGestures
    /\ \E e \in PointerEvents :
          /\ st' = [st EXCEPT !.isDragging = TRUE,
                              !.dragStartPos = ClientPos(committed[1].props.direction, e),
                              !.animationPosition = getCurrentTranslation(TRUE, t)]
          /\ gesture' = [gesture EXCEPT !.n = @ + 1, !.start = e, !.last = e,
                                        !.captured = getCurrentTranslation(TRUE, t)]
    /\ currentDragOffsetRef' = 0
    /\ UNCHANGED <<variant, props, committed, flushed, phase, geom, tracks,
                   animationFrameRef, raf, observer, listeners, timers, onMountCalls,
                   lastCalc, callbackVars>>

\* A pointer-down in a browser, which serialises the computed transform
handleDragStart == \E t \in ComputedTransforms : handleDragStartReading(t)

\* A pointer-down on a host that reports the transform in any form
handleDragStartAnyTransform == \E t \in TransformStrings : handleDragStartReading(t)

\* document mousemove / touchmove, while the listeners are attached
handleDragMove ==
    /\ Quiescent
    /\ listeners # <<>>
    /\ listeners[1].isDragging
    /\ \E e \in PointerEvents :
          /\ currentDragOffsetRef' =
                DragOffset(listeners[1].direction,
                           ClientPos(listeners[1].direction, e),
                           listeners[1].dragStartPos)
          /\ gesture' = [gesture EXCEPT !.last = e]
    /\ UNCHANGED <<variant, props, st, committed, flushed, phase, geom, tracks,
                   animationFrameRef, raf, observer, listeners, timers, onMountCalls,
                   lastCalc, callbackVars>>

\* What handleDragEnd's two replace() calls leave of a track's inline style
ReleasedStyle(track) ==
    [transform |-> <<>>,
     transition |-> IF track.transition # "none" THEN "release" ELSE "none"]

\* document mouseup / touchend / mouseleave, while the listeners are attached
handleDragEnd ==
    /\ Quiescent
    /\ listeners # <<>>
    /\ listeners[1].isDragging
    /\ tracks' = [i \in 1..2 |-> ReleasedStyle(tracks[i])]
    /\ timers' = timers \o <<[track |-> 1, gesture |-> gesture.n],
                             [track |-> 2, gesture |-> gesture.n]>>
    /\ st' = [st EXCEPT !.isDragging = FALSE]
    /\ currentDragOffsetRef' = 0
    /\ gesture' = [gesture EXCEPT !.released = gesture.n]
    /\ UNCHANGED <<variant, props, committed, flushed, phase, geom, animationFrameRef,
                   raf, observer, listeners, onMountCalls, lastCalc, callbackVars>>

\* What one animateDrag frame appends to a track's inline style; the style
\* parser drops the declaration "transform: translateX(NaNpx)"
DraggedStyle(track, initialPosition, offset) ==
    [transform |-> IF initialPosition = NaN THEN track.transform
                   ELSE <<initialPosition[1] + offset>>,
     transition |-> "drag"]

\* The browser runs the requested frame callback f (animateDrag)
animateDrag(f) ==
    /\ f \in raf
    /\ IF RefsAttached
       THEN LET id == FreshFrameId(raf \ {f}, f.id)
            IN  /\ tracks' = [i \in 1..2 |->
                                 DraggedStyle(tracks[i], f.initialPosition,
                                              currentDragOffsetRef)]
                /\ raf' = (raf \ {f}) \cup {[id |-> id,
                                             initialPosition |-> f.initialPosition]}
                /\ animationFrameRef' = id
       ELSE /\ raf' = raf \ {f}
            /\ UNCHANGED <<tracks, animationFrameRef>>
    /\ UNCHANGED <<variant, props, st, committed, flushed, phase, geom,
                   currentDragOffsetRef, observer, listeners, timers, onMountCalls,
                   lastCalc, gesture, callbackVars>>

AnimationFrame == \E f \in raf : animateDrag(f)

\* The oldest 3300 ms timer of handleDragEnd fires; by then no render and no
\* effect of the release is still pending
TimerFire ==
    /\ timers # <<>>
    /\ phase = "mounted" => Quiescent
    /\ tracks' = [tracks EXCEPT ![Head(timers).track].transition = "none"]
    /\ timers' = Tail(timers)
    /\ UNCHANGED <<variant, props, st, committed, flushed, phase, geom,
                   animationFrameRef, currentDragOffsetRef, raf, observer, listeners,
                   onMountCalls, lastCalc, gesture, callbackVars>>

InitDrag ==
    /\ InitCommon
    /\ geom = DefaultGeom
    /\ variant = 2
    /\ \E d \in {"left", "up"} :
          props = [DefaultProps EXCEPT !.draggable = TRUE, !.direction = d]

NextDrag ==
    \/ Render
    \/ RunEffects
    \/ handleDragStart
    \/ handleDragMove
    \/ handleDragEnd
    \/ AnimationFrame
    \/ TimerFire
    \/ ResizeNotify
    \/ SetDraggable
    \/ Unmount

\* The drag controller of variant 2
SpecDrag == InitDrag /\ [][NextDrag]_vars

NextTranslation ==
    \/ Render
    \/ RunEffects
    \/ handleDragStartAnyTransform
    \/ handleDragEnd
    \/ AnimationFrame

\* Drag start of variant 2 over transform strings of any form
SpecTranslation == InitDrag /\ [][NextTranslation]_vars

\* ------------------------------------------------------------- claims C1-C3

Max(a, b) == IF a >= b THEN a ELSE b

\* C1: after a calculateWidth run that measured with autoFill = true, the
\* multiplier is 1 when the content is at least as wide as the container or an
\* extent is zero, and otherwise the least integer m with
\* m * contentExtent >= containerExtent; the multiplier is never below 1.
C1_MultiplierIsCeiling ==
    /\ st.multiplier >= 1
    /\ (lastCalc.ran /\ lastCalc.autoFill) =>
          IF st.containerWidth > 0 /\ st.marqueeWidth > 0
          THEN IF st.marqueeWidth >= st.containerWidth
               THEN st.multiplier = 1
               ELSE /\ st.multiplier * st.marqueeWidth >= st.containerWidth
                    /\ (st.multiplier - 1) * st.marqueeWidth < st.containerWidth
          ELSE st.multiplier = 1

C1_Witness ==
    /\ lastCalc.ran
    /\ lastCalc.autoFill
    /\ st.containerWidth = 3
    /\ st.marqueeWidth = 2
    /\ st.multiplier = 2

\* C2: in every committed render with autoFill = false the multiplier is 1.
C2_NoAutoFillMultiplierOne ==
    (Rendered /\ ~committed[1].props.autoFill) => committed[1].st.multiplier = 1

\* C3: in every committed render with speed > 0 the emitted duration is
\* contentExtent * multiplier / speed under autoFill and
\* max(containerExtent, contentExtent) / speed otherwise, and it is strictly
\* positive when the extent it is computed from is positive.
C3_DurationFormula ==
    (Rendered /\ committed[1].props.speed > 0) =>
        LET p == committed[1].props
            s == committed[1].st
            d == Emitted(committed[1]).duration
            extent == IF p.autoFill THEN s.marqueeWidth
                      ELSE Max(s.containerWidth, s.marqueeWidth)
            travel == IF p.autoFill THEN s.marqueeWidth * s.multiplier ELSE extent
        IN  /\ d.den # 0
            /\ d.num * p.speed = travel * d.den
            /\ extent > 0 => d.num * d.den > 0

C3_Witness ==
    /\ Rendered
    /\ committed[1].props.autoFill
    /\ committed[1].st.marqueeWidth = 2
    /\ committed[1].st.containerWidth = 3
    /\ committed[1].st.multiplier = 2
    /\ Emitted(committed[1]).duration = [num |-> 4, den |-> DefaultSpeed]

\* ------------------------------------------------------------- claims C4-C6

\* C4: with loop = N > 0 the animation has at most N iteration ends, the first
\* N - 1 invoke onCycleComplete and the N-th invokes onFinish once; with
\* loop = 0 every iteration end invokes onCycleComplete and onFinish never runs.
C4_LoopCallbacks ==
    /\ props.loop = 0 => (finishCalls = 0 /\ cycleCalls = iterations)
    /\ props.loop > 0 =>
          /\ iterations <= props.loop
          /\ iterations < props.loop => (cycleCalls = iterations /\ finishCalls = 0)
          /\ iterations = props.loop => (cycleCalls = props.loop - 1 /\ finishCalls = 1)

C4_Witness ==
    /\ props.loop = 2
    /\ iterations = 2
    /\ cycleCalls = 1
    /\ finishCalls = 1

\* C5: onMount has been invoked exactly once as soon as the effects of the first
\* render have run, whatever is rendered afterwards (and not before).
C5_OnMountExactlyOnce ==
    /\ flushed = <<>> => onMountCalls = 0
    /\ flushed # <<>> => onMountCalls = 1

\* C6: in every committed render with play = false, --play, --pause-on-hover
\* and --pause-on-click are all "paused".
C6_PlayFalseForcesPaused ==
    (Rendered /\ ~committed[1].props.play) =>
        LET e == Emitted(committed[1])
        IN  /\ e.play = "paused"
            /\ e.pauseOnHover = "paused"
            /\ e.pauseOnClick = "paused"

C6_Witness ==
    /\ Rendered
    /\ ~committed[1].props.play
    /\ ~committed[1].props.pauseOnHover
    /\ ~committed[1].props.pauseOnClick
    /\ ~committed[1].props.draggable
    /\ Emitted(committed[1]).pauseOnClick = "paused"

\* ------------------------------------------------------------ claims C7-C10

\* The offset of the current gesture: last pointer coordinate minus the
\* coordinate at this gesture's start, negated for direction "up"
GestureOffset ==
    LET d == ClientPos(props.direction, gesture.last)
             - ClientPos(props.direction, gesture.start)
    IN  IF props.direction = "up" THEN -d ELSE d

\* C7: while a gesture is active, every frame callback leaves both tracks at the
\* position captured at this gesture's start plus this gesture's offset.
C7_TickPositionsBothTracks ==
    [][(st.isDragging /\ AnimationFrame) =>
          \A i \in 1..2 : tracks'[i].transform = <<gesture.captured[1] + GestureOffset>>]_vars

\* C8: once the last gesture is released, its timers have fired and nothing is
\* pending, neither track carries a transform or a transition override.
C8_NoOverrideAfterTimeout ==
    (/\ Quiescent
     /\ gesture.n > 0
     /\ gesture.released = gesture.n
     /\ ~st.isDragging
     /\ timers = <<>>) => \A i \in 1..2 : tracks[i] = CleanTrack

\* C9: a timer of an earlier gesture that fires after a newer gesture has
\* started changes no override on either track.
C9_StaleTimerIsNoOp ==
    [][(/\ phase = "mounted"
        /\ timers # <<>>
        /\ Head(timers).gesture < gesture.n
        /\ TimerFire) => tracks' = tracks]_vars

\* C10: after unmount the observer is disconnected and no frame callback and no
\* timer of the component is still pending.
C10_NothingPendingAfterUnmount ==
    phase = "unmounted" => (observer = <<>> /\ raf = {} /\ timers = <<>>)

\* ----------------------------------------------------------- claims C11-C14

C12_ReleaseSetsTransition ==
    [][handleDragEnd => \A i \in 1..2 : tracks'[i].transition = "release"]_vars

\* The fifth component of a matrix string when it is a number, otherwise 0
TranslationOrZero(t) ==
    IF t.fn = "matrix" /\ Len(t.args) >= 5 /\ parseFloat(t.args[5]) # NaN
    THEN parseFloat(t.args[5])[1]
    ELSE 0

\* C13: a drag start that reads the transform string t stores the x-translation
\* of t when t is a matrix whose fifth component is a number and exactly 0 for
\* every other string (never NaN), and the gesture enters Dragging.
C13_TranslationOrZero ==
    [][\A t \in TransformStrings :
          handleDragStartReading(t) =>
             /\ st'.isDragging
             /\ st'.animationPosition = <<TranslationOrZero(t)>>]_vars

\* C14: whenever the controller is in Dragging with no render or effect
\* pending, whatever props the parent has passed since the gesture started, the
\* document listeners that end the gesture on pointer-up, touch-end or leave
\* are registered.
C14_DraggingCanEnd ==
    (Quiescent /\ st.isDragging) => (listeners # <<>> /\ listeners[1].isDragging)

====
